---- MODULE Spec2Model ----
(***************************************************************************)
(* Follow lifecycle engine of internal/processing/account/follow.go:       *)
(* Processor.FollowCreate and Processor.FollowRemove, run by request       *)
(* handlers against a shared repository (p.state.DB) and the client API    *)
(* worker queue (p.state.Workers).  Every repository call is one atomic    *)
(* step of the handler that makes it; the statements between two           *)
(* repository calls belong to the step of the call that follows them.      *)
(***************************************************************************)
EXTENDS Integers, Sequences, FiniteSets, TLC

VARIABLES accounts, blocks, followRequests, follows, queue, nextID,
          pc, loc, last, calls, faults, targets

vars == <<accounts, blocks, followRequests, follows, queue, nextID,
          pc, loc, last, calls, faults, targets>>

db == <<accounts, blocks, followRequests, follows>>

\* what no handler step changes: the ids requests name, the calls admitted
env == <<targets, calls>>

(***************************************************************************)
(* Bounds of the model.                                                    *)
(***************************************************************************)
\* calls the handler accepts in one behaviour, one request at a time
MaxCalls == 2
\* calls the handlers accept in one behaviour, two requests at a time
MaxConcCalls == 2
\* repository / id-generator failures injected in one behaviour
MaxFaults == 1

(***************************************************************************)
(* Data.                                                                   *)
(***************************************************************************)
\* gtsmodel.Account rows: A, C local and unlocked, D local and locked,
\* B remote and unlocked, E remote and locked.  X is an id with no row.
AccountRows ==
  { [ID |-> "A", Username |-> "a", Domain |-> "",        Locked |-> FALSE],
    [ID |-> "B", Username |-> "b", Domain |-> "b.org",   Locked |-> FALSE],
    [ID |-> "C", Username |-> "c", Domain |-> "",        Locked |-> FALSE],
    [ID |-> "D", Username |-> "d", Domain |-> "",        Locked |-> TRUE],
    [ID |-> "E", Username |-> "e", Domain |-> "e.org",   Locked |-> TRUE] }

\* a nil *gtsmodel.Account
NilAccount == [ID |-> "", Username |-> "", Domain |-> "", Locked |-> FALSE]

AccountIDs == {"A", "B", "C", "D", "E", "X"}

\* the accounts a request is made for (requestingAccount) and the ids it
\* names: itself, every kind of account, an id without a row
Requesters == {"A"}
Targets == {"A", "B", "C", "D", "X"}
\* the ids named by requests that run two at a time: a remote account, a
\* local unlocked one
ConcTargets == {"B", "C"}

\* apimodel.AccountFollowRequest options: Reblogs and Notify are *bool
\* (form.ID is the target account id; FollowRemove is given the id alone).
\* The options of a form are drawn where FollowCreate first reads them.
Options == { [Reblogs |-> "nil", Notify |-> "nil"],
             [Reblogs |-> "false", Notify |-> "true"] }
Form(id, opt) == [ID |-> id, Reblogs |-> opt.Reblogs, Notify |-> opt.Notify]
NoForm == [ID |-> "", Reblogs |-> "nil", Notify |-> "nil"]

\* uris.GenerateURIForFollow(username, id)
GenerateURIForFollow(username, id) == <<"users", username, "follow", id>>

\* a gtsmodel.FollowRequest / gtsmodel.Follow row
FollowRecord(id, account, target, uri, reblogs, notify) ==
  [ID |-> id, AccountID |-> account, TargetAccountID |-> target, URI |-> uri,
   ShowReblogs |-> reblogs, Notify |-> notify]

\* the zero value of the row types: fr := &gtsmodel.FollowRequest{}
ZeroRecord == FollowRecord(0, "", "", <<>>, "nil", "nil")

\* a row stored before the behaviour starts
Stored(id, account, username, target) ==
  FollowRecord(id, account, target, GenerateURIForFollow(username, id),
               "true", "false")

ForPair(rows, a, b) == {r \in rows : r.AccountID = a /\ r.TargetAccountID = b}

(***************************************************************************)
(* The repository (db.DB), as section 6 of the specification gives it.     *)
(***************************************************************************)
\* IsBlocked(ctx, a, b, eitherDirection)
IsBlocked(bl, a, b, eitherDirection) ==
  \/ <<a, b>> \in bl
  \/ eitherDirection /\ <<b, a>> \in bl

\* GetAccountByID: the row, or db.ErrNoEntries when there is none
HasAccount(accts, id) == \E r \in accts : r.ID = id
GetAccountByID(accts, id) == CHOOSE r \in accts : r.ID = id

\* IsFollowing / IsFollowRequested
IsFollowing(fs, a, b) == ForPair(fs, a, b) # {}
IsFollowRequested(frs, a, b) == ForPair(frs, a, b) # {}

\* Put(fr): rejected when the (origin, target) key is already taken by a
\* follow request or a follow
\* (variant: no uniqueness constraint)
PutNeverConflicts(frs, fs, fr) == FALSE
PutConflicts(frs, fs, fr) ==
  \/ ForPair(frs, fr.AccountID, fr.TargetAccountID) # {}
  \/ ForPair(fs, fr.AccountID, fr.TargetAccountID) # {}
Put(frs, fr) == frs \cup {fr}

\* GetWhere(account_id = a, target_account_id = b): a matching row, or
\* db.ErrNoEntries
GetWhereFound(rows, a, b) == ForPair(rows, a, b) # {}
GetWhere(rows, a, b) == CHOOSE r \in ForPair(rows, a, b) : TRUE

\* DeleteByID(id): deleting a row that is gone is no error
DeleteByID(rows, id) == {r \in rows : r.ID # id}

\* AcceptFollowRequest(a, b): delete the request and create the follow with
\* the request's identity and URI; db.ErrNoEntries when there is no request
AcceptFound(frs, a, b) == ForPair(frs, a, b) # {}
AcceptedRequests(frs, a, b) == frs \ ForPair(frs, a, b)
AcceptedFollows(frs, fs, a, b) ==
  (fs \ ForPair(fs, a, b)) \cup {GetWhere(frs, a, b)}

\* RelationshipGet(requestingAccount, targetAccountID): the snapshot
NoRelationship ==
  [ID |-> "", Following |-> FALSE, Requested |-> FALSE,
   Blocking |-> FALSE, BlockedBy |-> FALSE]
RelationshipGet(bl, frs, fs, a, b) ==
  [ID |-> b, Following |-> IsFollowing(fs, a, b),
   Requested |-> IsFollowRequested(frs, a, b),
   Blocking |-> IsBlocked(bl, a, b, FALSE),
   BlockedBy |-> IsBlocked(bl, b, a, FALSE)]

(***************************************************************************)
(* Handler state.                                                          *)
(***************************************************************************)
\* (*apimodel.Relationship, gtserror.WithCode)
Result(code, rel) == [code |-> code, rel |-> rel]
NoResult == Result("", NoRelationship)
Failure(code) == Result(code, NoRelationship)

\* the repository rows and the queue as a call finds them
Snapshot == [frs |-> followRequests, fs |-> follows, queue |-> queue]
NoSnapshot == [frs |-> {}, fs |-> {}, queue |-> <<>>]

\* the locals of one call; errs names the repository calls that failed in it
IdleLoc ==
  [op |-> "", req |-> NilAccount, form |-> NoForm,
   targetAcct |-> NilAccount, fr |-> ZeroRecord, f |-> ZeroRecord,
   frChanged |-> FALSE, frURI |-> <<>>, fChanged |-> FALSE, fURI |-> <<>>,
   res |-> NoResult, errs |-> {}, pre |-> NoSnapshot]

\* the call that returned before the last one
NoCall == [op |-> "", req |-> "", tgt |-> "", res |-> NoResult, errs |-> {},
           pre |-> NoSnapshot]

\* whether the next repository call may fail
Fails == IF faults < MaxFaults THEN {FALSE, TRUE} ELSE {FALSE}

Goto(p, label, l) ==
  /\ pc' = [pc EXCEPT ![p] = label]
  /\ loc' = [loc EXCEPT ![p] = l]

\* return res, err from the handler
Finish(p, res) == Goto(p, "idle", [loc[p] EXCEPT !.res = res])

Fault(p, name) ==
  /\ faults' = faults + 1
  /\ Goto(p, "idle", [loc[p] EXCEPT !.res = Failure("Internal"),
                                     !.errs = @ \cup {name}])

(***************************************************************************)
(* Processor.FollowCreate                                                  *)
(***************************************************************************)
\* p.state.DB.IsBlocked(ctx, requestingAccount.ID, form.ID, true)
\* (variant: the requester's own blocks only)
CreateBlockCheckOneWay(bl, a, b) == IsBlocked(bl, a, b, FALSE)
CreateBlockCheck(bl, a, b) == IsBlocked(bl, a, b, TRUE)

\* p.state.DB.IsFollowing(ctx, requestingAccount, targetAcct)
AlreadyFollows(fs, req, acct) == IsFollowing(fs, req.ID, acct.ID)

\* p.state.DB.IsFollowRequested(ctx, requestingAccount, targetAcct)
\* (variant: the two accounts swapped)
AlreadyRequestedSwapped(frs, req, acct) == IsFollowRequested(frs, acct.ID, req.ID)
AlreadyRequested(frs, req, acct) == IsFollowRequested(frs, req.ID, acct.ID)

\* requestingAccount.ID == targetAcct.ID
\* (variant: the self-follow test left out)
IsSelfFollowNever(req, acct) == FALSE
IsSelfFollow(req, acct) == req.ID = acct.ID

\* fr := &gtsmodel.FollowRequest{...}, with the options of the form
\* (variant: the ids of the account and of the target swapped)
NewFollowRequestReversed(req, form, id) ==
  FollowRecord(id, form.ID, req.ID,
               GenerateURIForFollow(req.Username, id),
               IF form.Reblogs # "nil" THEN form.Reblogs ELSE "true",
               IF form.Notify # "nil" THEN form.Notify ELSE "false")
NewFollowRequest(req, form, id) ==
  FollowRecord(id, req.ID, form.ID,
               GenerateURIForFollow(req.Username, id),
               IF form.Reblogs # "nil" THEN form.Reblogs ELSE "true",
               IF form.Notify # "nil" THEN form.Notify ELSE "false")

\* !*targetAcct.Locked && targetAcct.Domain == ""
\* (variants: the lock test inverted; the domain test left out; no test)
AutoAcceptLocked(acct) == acct.Locked /\ acct.Domain = ""
AutoAcceptRemote(acct) == ~acct.Locked
AutoAcceptAlways(acct) == TRUE
AutoAccept(acct) == ~acct.Locked /\ acct.Domain = ""

\* messages.FromClientAPI{Follow, Create, fr, requestingAccount, targetAcct}
CreateMessage(fr, req, acct) ==
  [APObjectType |-> "Follow", APActivityType |-> "Create", GTSModel |-> fr,
   OriginAccount |-> req, TargetAccount |-> acct]

CreateIsBlocked(p) ==
  /\ pc[p] = "CreateIsBlocked"
  /\ UNCHANGED <<db, queue, nextID, last, env>>
  /\ \E fail \in Fails :
       IF fail THEN Fault(p, "IsBlocked")
       ELSE /\ UNCHANGED faults
            /\ IF CreateBlockCheck(blocks, loc[p].req.ID, loc[p].form.ID)
                 THEN Finish(p, Failure("NotFound"))
                 ELSE Goto(p, "CreateGetAccount", loc[p])

CreateGetAccount(p) ==
  /\ pc[p] = "CreateGetAccount"
  /\ UNCHANGED <<db, queue, nextID, last, env>>
  /\ \E fail \in Fails :
       IF fail THEN Fault(p, "GetAccountByID")
       ELSE /\ UNCHANGED faults
            /\ IF ~HasAccount(accounts, loc[p].form.ID)
                 THEN Finish(p, Failure("NotFound"))
                 ELSE Goto(p, "CreateIsFollowing",
                           [loc[p] EXCEPT !.targetAcct =
                              GetAccountByID(accounts, loc[p].form.ID)])

CreateIsFollowing(p) ==
  /\ pc[p] = "CreateIsFollowing"
  /\ UNCHANGED <<db, queue, nextID, last, env>>
  /\ \E fail \in Fails :
       IF fail THEN Fault(p, "IsFollowing")
       ELSE /\ UNCHANGED faults
            /\ IF AlreadyFollows(follows, loc[p].req, loc[p].targetAcct)
                 THEN Goto(p, "RelationshipGet", loc[p])
                 ELSE Goto(p, "CreateIsFollowRequested", loc[p])

CreateIsFollowRequested(p) ==
  /\ pc[p] = "CreateIsFollowRequested"
  /\ UNCHANGED <<db, queue, nextID, last, env>>
  /\ \E fail \in Fails :
       IF fail THEN Fault(p, "IsFollowRequested")
       ELSE /\ UNCHANGED faults
            /\ IF AlreadyRequested(followRequests, loc[p].req, loc[p].targetAcct)
                 THEN Goto(p, "RelationshipGet", loc[p])
                 ELSE Goto(p, "CreatePut", loc[p])

\* (variant: the error of DB.Put is dropped and the handler goes on)
CreatePutGoesOn(p) ==
  /\ pc[p] = "CreatePut"
  /\ UNCHANGED <<accounts, blocks, follows, queue, last, env>>
  /\ IF IsSelfFollow(loc[p].req, loc[p].targetAcct)
       THEN /\ UNCHANGED <<followRequests, nextID, faults>>
            /\ Finish(p, Failure("NotAcceptable"))
       ELSE \E idFails \in Fails :
            IF idFails
            THEN /\ UNCHANGED <<followRequests, nextID>>
                 /\ Fault(p, "NewRandomULID")
            ELSE \E opt \in Options :
                 LET form == Form(loc[p].form.ID, opt)
                     fr == NewFollowRequest(loc[p].req, form, nextID)
                     next == IF AutoAccept(loc[p].targetAcct) THEN "CreateAccept"
                                                              ELSE "CreateEnqueue" IN
                 /\ nextID' = nextID + 1
                 /\ \E fail \in Fails :
                      IF fail \/ PutConflicts(followRequests, follows, fr)
                      THEN /\ UNCHANGED followRequests
                           /\ faults' = IF fail THEN faults + 1 ELSE faults
                           /\ Goto(p, next,
                                    [loc[p] EXCEPT !.form = form, !.fr = fr,
                                                   !.errs = @ \cup {"Put"}])
                      ELSE /\ UNCHANGED faults
                           /\ followRequests' = Put(followRequests, fr)
                           /\ Goto(p, next, [loc[p] EXCEPT !.form = form, !.fr = fr])

\* the self-follow check, id.NewRandomULID, the new request and DB.Put
CreatePut(p) ==
  /\ pc[p] = "CreatePut"
  /\ UNCHANGED <<accounts, blocks, follows, queue, last, env>>
  /\ IF IsSelfFollow(loc[p].req, loc[p].targetAcct)
       THEN /\ UNCHANGED <<followRequests, nextID, faults>>
            /\ Finish(p, Failure("NotAcceptable"))
       ELSE \E idFails \in Fails :
            IF idFails
            THEN /\ UNCHANGED <<followRequests, nextID>>
                 /\ Fault(p, "NewRandomULID")
            ELSE \E opt \in Options :
                 LET form == Form(loc[p].form.ID, opt)
                     fr == NewFollowRequest(loc[p].req, form, nextID) IN
                 /\ nextID' = nextID + 1
                 /\ \E fail \in Fails :
                      IF fail
                      THEN /\ UNCHANGED followRequests
                           /\ Fault(p, "Put")
                      ELSE /\ UNCHANGED faults
                           /\ IF PutConflicts(followRequests, follows, fr)
                                THEN /\ UNCHANGED followRequests
                                     /\ Goto(p, "idle",
                                              [loc[p] EXCEPT !.res = Failure("Internal"),
                                                             !.errs = @ \cup {"ErrAlreadyExists"}])
                                ELSE /\ followRequests' = Put(followRequests, fr)
                                     /\ Goto(p, IF AutoAccept(loc[p].targetAcct)
                                                  THEN "CreateAccept"
                                                  ELSE "CreateEnqueue",
                                              [loc[p] EXCEPT !.form = form, !.fr = fr])

\* DB.AcceptFollowRequest for a local account that is not locked
CreateAccept(p) ==
  /\ pc[p] = "CreateAccept"
  /\ UNCHANGED <<accounts, blocks, queue, nextID, last, env>>
  /\ \E fail \in Fails :
       IF fail
       THEN /\ UNCHANGED <<followRequests, follows>>
            /\ Fault(p, "AcceptFollowRequest")
       ELSE /\ UNCHANGED faults
            /\ IF ~AcceptFound(followRequests, loc[p].req.ID, loc[p].form.ID)
                 THEN /\ UNCHANGED <<followRequests, follows>>
                      /\ Goto(p, "idle",
                               [loc[p] EXCEPT !.res = Failure("Internal"),
                                              !.errs = @ \cup {"ErrNoEntries"}])
                 ELSE /\ followRequests' =
                           AcceptedRequests(followRequests, loc[p].req.ID, loc[p].form.ID)
                      /\ follows' =
                           AcceptedFollows(followRequests, follows,
                                           loc[p].req.ID, loc[p].form.ID)
                      /\ Goto(p, "RelationshipGet", loc[p])

\* p.state.Workers.EnqueueClientAPI of the Create message
CreateEnqueue(p) ==
  /\ pc[p] = "CreateEnqueue"
  /\ UNCHANGED <<db, nextID, last, env, faults>>
  /\ queue' = Append(queue, CreateMessage(loc[p].fr, loc[p].req, loc[p].targetAcct))
  /\ Goto(p, "RelationshipGet", loc[p])

\* return p.RelationshipGet(ctx, requestingAccount, form.ID), of both handlers
ReturnRelationship(p) ==
  /\ pc[p] = "RelationshipGet"
  /\ UNCHANGED <<db, queue, nextID, last, env, faults>>
  /\ Finish(p, Result("OK", RelationshipGet(blocks, followRequests, follows,
                                            loc[p].req.ID, loc[p].form.ID)))

(***************************************************************************)
(* Processor.FollowRemove (loc[p].form.ID holds targetAccountID)           *)
(***************************************************************************)
\* p.state.DB.IsBlocked(ctx, requestingAccount.ID, targetAccountID, true)
RemoveBlockCheck(bl, a, b) == IsBlocked(bl, a, b, TRUE)

\* messages.FromClientAPI{Follow, Undo, &gtsmodel.Follow{...}, origin, target}
\* (variant: the captured URI left out)
UndoMessageNoURI(req, targetAccountID, uri, acct) ==
  [APObjectType |-> "Follow", APActivityType |-> "Undo",
   GTSModel |-> FollowRecord(0, req.ID, targetAccountID, <<>>, "nil", "nil"),
   OriginAccount |-> req, TargetAccount |-> acct]
UndoMessage(req, targetAccountID, uri, acct) ==
  [APObjectType |-> "Follow", APActivityType |-> "Undo",
   GTSModel |-> FollowRecord(0, req.ID, targetAccountID, uri, "nil", "nil"),
   OriginAccount |-> req, TargetAccount |-> acct]

\* if frChanged {...}; if fChanged {...}; return p.RelationshipGet(...)
\* (variant: the frChanged test left out)
AfterDeletesAlways(l) == "RemoveEnqueueFollowRequest"
AfterDeletes(l) ==
  IF l.frChanged THEN "RemoveEnqueueFollowRequest"
  ELSE IF l.fChanged THEN "RemoveEnqueueFollow"
  ELSE "RelationshipGet"

RemoveIsBlocked(p) ==
  /\ pc[p] = "RemoveIsBlocked"
  /\ UNCHANGED <<db, queue, nextID, last, env>>
  /\ \E fail \in Fails :
       IF fail THEN Fault(p, "IsBlocked")
       ELSE /\ UNCHANGED faults
            /\ IF RemoveBlockCheck(blocks, loc[p].req.ID, loc[p].form.ID)
                 THEN Finish(p, Failure("NotFound"))
                 ELSE Goto(p, "RemoveGetAccount", loc[p])

\* (a variant that returns Internal for an error other than db.ErrNoEntries)
RemoveGetAccountAborts(p) ==
  /\ pc[p] = "RemoveGetAccount"
  /\ UNCHANGED <<db, queue, nextID, last, env>>
  /\ \E fail \in Fails :
       IF fail THEN Fault(p, "GetAccountByID")
       ELSE /\ UNCHANGED faults
            /\ IF ~HasAccount(accounts, loc[p].form.ID)
                 THEN Finish(p, Failure("NotFound"))
                 ELSE Goto(p, "RemoveGetFollowRequest",
                           [loc[p] EXCEPT !.targetAcct =
                              GetAccountByID(accounts, loc[p].form.ID)])

\* (a variant that goes on when there is no row)
RemoveGetAccountGoesOn(p) ==
  /\ pc[p] = "RemoveGetAccount"
  /\ UNCHANGED <<db, queue, nextID, last, env>>
  /\ \E fail \in Fails :
       IF fail
       THEN /\ faults' = faults + 1
            /\ Goto(p, "RemoveGetFollowRequest",
                     [loc[p] EXCEPT !.targetAcct = NilAccount,
                                    !.errs = @ \cup {"GetAccountByID"}])
       ELSE /\ UNCHANGED faults
            /\ Goto(p, "RemoveGetFollowRequest",
                     [loc[p] EXCEPT !.targetAcct =
                        IF HasAccount(accounts, loc[p].form.ID)
                        THEN GetAccountByID(accounts, loc[p].form.ID)
                        ELSE NilAccount])

\* an error other than db.ErrNoEntries is dropped and targetAcct stays nil
RemoveGetAccount(p) ==
  /\ pc[p] = "RemoveGetAccount"
  /\ UNCHANGED <<db, queue, nextID, last, env>>
  /\ \E fail \in Fails :
       IF fail
       THEN /\ faults' = faults + 1
            /\ Goto(p, "RemoveGetFollowRequest",
                     [loc[p] EXCEPT !.targetAcct = NilAccount,
                                    !.errs = @ \cup {"GetAccountByID"}])
       ELSE /\ UNCHANGED faults
            /\ IF ~HasAccount(accounts, loc[p].form.ID)
                 THEN Finish(p, Failure("NotFound"))
                 ELSE Goto(p, "RemoveGetFollowRequest",
                           [loc[p] EXCEPT !.targetAcct =
                              GetAccountByID(accounts, loc[p].form.ID)])

\* DB.GetWhere(..., fr): any error leaves the request alone
\* (variant: a failed lookup of the request ends the call)
RemoveGetFollowRequestAborts(p) ==
  /\ pc[p] = "RemoveGetFollowRequest"
  /\ UNCHANGED <<db, queue, nextID, last, env>>
  /\ \E fail \in Fails :
       IF fail
       THEN Fault(p, "GetWhereFollowRequest")
       ELSE /\ UNCHANGED faults
            /\ IF ~GetWhereFound(followRequests, loc[p].req.ID, loc[p].form.ID)
                 THEN Goto(p, "RemoveGetFollow", loc[p])
                 ELSE LET fr == GetWhere(followRequests, loc[p].req.ID, loc[p].form.ID) IN
                      Goto(p, "RemoveDeleteFollowRequest",
                           [loc[p] EXCEPT !.fr = fr, !.frURI = fr.URI])
RemoveGetFollowRequest(p) ==
  /\ pc[p] = "RemoveGetFollowRequest"
  /\ UNCHANGED <<db, queue, nextID, last, env>>
  /\ \E fail \in Fails :
       IF fail
       THEN /\ faults' = faults + 1
            /\ Goto(p, "RemoveGetFollow",
                     [loc[p] EXCEPT !.errs = @ \cup {"GetWhereFollowRequest"}])
       ELSE /\ UNCHANGED faults
            /\ IF ~GetWhereFound(followRequests, loc[p].req.ID, loc[p].form.ID)
                 THEN Goto(p, "RemoveGetFollow", loc[p])
                 ELSE LET fr == GetWhere(followRequests, loc[p].req.ID, loc[p].form.ID) IN
                      Goto(p, "RemoveDeleteFollowRequest",
                           [loc[p] EXCEPT !.fr = fr, !.frURI = fr.URI])

\* (variant: a failed delete of the request is dropped and the handler goes on)
RemoveDeleteFollowRequestGoesOn(p) ==
  /\ pc[p] = "RemoveDeleteFollowRequest"
  /\ UNCHANGED <<accounts, blocks, follows, queue, nextID, last, env>>
  /\ \E fail \in Fails :
       IF fail
       THEN /\ UNCHANGED followRequests
            /\ faults' = faults + 1
            /\ Goto(p, "RemoveGetFollow",
                     [loc[p] EXCEPT !.errs = @ \cup {"DeleteFollowRequest"}])
       ELSE /\ UNCHANGED faults
            /\ followRequests' = DeleteByID(followRequests, loc[p].fr.ID)
            /\ Goto(p, "RemoveGetFollow", [loc[p] EXCEPT !.frChanged = TRUE])

\* DB.DeleteByID(ctx, fr.ID, fr)
RemoveDeleteFollowRequest(p) ==
  /\ pc[p] = "RemoveDeleteFollowRequest"
  /\ UNCHANGED <<accounts, blocks, follows, queue, nextID, last, env>>
  /\ \E fail \in Fails :
       IF fail
       THEN /\ UNCHANGED followRequests
            /\ Fault(p, "DeleteFollowRequest")
       ELSE /\ UNCHANGED faults
            /\ followRequests' = DeleteByID(followRequests, loc[p].fr.ID)
            /\ Goto(p, "RemoveGetFollow", [loc[p] EXCEPT !.frChanged = TRUE])

\* DB.GetWhere(..., f): any error leaves the follow alone
RemoveGetFollow(p) ==
  /\ pc[p] = "RemoveGetFollow"
  /\ UNCHANGED <<db, queue, nextID, last, env>>
  /\ \E fail \in Fails :
       IF fail
       THEN /\ faults' = faults + 1
            /\ LET l == [loc[p] EXCEPT !.errs = @ \cup {"GetWhereFollow"}] IN
                 Goto(p, AfterDeletes(l), l)
       ELSE /\ UNCHANGED faults
            /\ IF ~GetWhereFound(follows, loc[p].req.ID, loc[p].form.ID)
                 THEN Goto(p, AfterDeletes(loc[p]), loc[p])
                 ELSE LET f == GetWhere(follows, loc[p].req.ID, loc[p].form.ID) IN
                      Goto(p, "RemoveDeleteFollow",
                           [loc[p] EXCEPT !.f = f, !.fURI = f.URI])

\* DB.DeleteByID(ctx, f.ID, f)
RemoveDeleteFollow(p) ==
  /\ pc[p] = "RemoveDeleteFollow"
  /\ UNCHANGED <<accounts, blocks, followRequests, queue, nextID, last, env>>
  /\ \E fail \in Fails :
       IF fail
       THEN /\ UNCHANGED follows
            /\ Fault(p, "DeleteFollow")
       ELSE /\ UNCHANGED faults
            /\ follows' = DeleteByID(follows, loc[p].f.ID)
            /\ LET l == [loc[p] EXCEPT !.fChanged = TRUE] IN
                 Goto(p, AfterDeletes(l), l)

\* the Undo message for the deleted follow request
RemoveEnqueueFollowRequest(p) ==
  /\ pc[p] = "RemoveEnqueueFollowRequest"
  /\ UNCHANGED <<db, nextID, last, env, faults>>
  /\ queue' = Append(queue, UndoMessage(loc[p].req, loc[p].form.ID,
                                         loc[p].frURI, loc[p].targetAcct))
  /\ Goto(p, IF loc[p].fChanged THEN "RemoveEnqueueFollow" ELSE "RelationshipGet",
           loc[p])

\* (variant: the URI of the request is sent for the follow as well)
RemoveEnqueueFollowWithRequestURI(p) ==
  /\ pc[p] = "RemoveEnqueueFollow"
  /\ UNCHANGED <<db, nextID, last, env, faults>>
  /\ queue' = Append(queue, UndoMessage(loc[p].req, loc[p].form.ID,
                                         loc[p].frURI, loc[p].targetAcct))
  /\ Goto(p, "RelationshipGet", loc[p])

\* the Undo message for the deleted follow
RemoveEnqueueFollow(p) ==
  /\ pc[p] = "RemoveEnqueueFollow"
  /\ UNCHANGED <<db, nextID, last, env, faults>>
  /\ queue' = Append(queue, UndoMessage(loc[p].req, loc[p].form.ID,
                                         loc[p].fURI, loc[p].targetAcct))
  /\ Goto(p, "RelationshipGet", loc[p])

(***************************************************************************)
(* Requests arriving at, and answers leaving, the handlers.                *)
(***************************************************************************)
RequesterRows == {r \in AccountRows : r.ID \in Requesters}

\* a handler that has returned keeps its locals, res among them, until it
\* takes its next request; the answer it gave is then remembered in last
Summary(l) ==
  [op |-> l.op, req |-> l.req.ID, tgt |-> l.form.ID, res |-> l.res,
   errs |-> l.errs, pre |-> l.pre]

Begin(p, op, req, form) ==
  /\ pc' = [pc EXCEPT ![p] = IF op = "FollowCreate" THEN "CreateIsBlocked"
                                                    ELSE "RemoveIsBlocked"]
  /\ loc' = [loc EXCEPT ![p] = [IdleLoc EXCEPT !.op = op, !.req = req,
                                               !.form = form, !.pre = Snapshot]]
  /\ last' = IF loc[p].op = "" THEN last ELSE Summary(loc[p])

\* the API layer calls FollowCreate(ctx, requestingAccount, form)
CallFollowCreate(p) ==
  /\ pc[p] = "idle"
  /\ calls > 0
  /\ calls' = calls - 1
  /\ UNCHANGED <<db, queue, nextID, faults, targets>>
  /\ \E req \in RequesterRows, id \in targets :
       Begin(p, "FollowCreate", req, [NoForm EXCEPT !.ID = id])

\* the API layer calls FollowRemove(ctx, requestingAccount, targetAccountID)
CallFollowRemove(p) ==
  /\ pc[p] = "idle"
  /\ calls > 0
  /\ calls' = calls - 1
  /\ UNCHANGED <<db, queue, nextID, faults, targets>>
  /\ \E req \in RequesterRows, id \in targets :
       Begin(p, "FollowRemove", req, [NoForm EXCEPT !.ID = id])

(***************************************************************************)
(* Initial repositories.                                                   *)
(***************************************************************************)
\* A blocks B; C blocks A
BlockChoices == { {}, {<<"A", "B">>}, {<<"C", "A">>} }

\* repositories in which the invariants of the rows hold
SoundRepositories ==
  { [frs |-> {}, fs |-> {}],
    [frs |-> {Stored(1, "A", "a", "B")}, fs |-> {Stored(2, "B", "b", "A")}],
    [frs |-> {Stored(1, "A", "a", "D")},
     fs |-> {Stored(2, "A", "a", "C"), Stored(3, "A", "a", "X")}] }

\* repositories other parts of the server left behind: a request and a
\* follow for one pair, a follow of oneself
LegacyRepositories ==
  { [frs |-> {Stored(1, "A", "a", "B")}, fs |-> {Stored(2, "A", "a", "B")}],
    [frs |-> {}, fs |-> {Stored(1, "A", "a", "A")}] }

\* the ids of the rows stored before the behaviour starts
StoredIDs == {1, 2, 3}

\* the request handlers; one that is "off" takes no request
Handlers == {1, 2}

InitWith(running, repositories, admitted, ids) ==
  /\ accounts = AccountRows
  /\ blocks \in BlockChoices
  /\ \E r \in repositories : followRequests = r.frs /\ follows = r.fs
  /\ queue = <<>>
  /\ nextID = Cardinality(StoredIDs) + 1
  /\ pc = [p \in Handlers |-> IF p \in running THEN "idle" ELSE "off"]
  /\ loc = [p \in Handlers |-> IdleLoc]
  /\ last = NoCall
  /\ calls = admitted
  /\ targets = ids
  /\ faults = 0

\* one request at a time, on any repository
Init == InitWith({1}, SoundRepositories \cup LegacyRepositories, MaxCalls, Targets)

\* two requests at a time, on a sound repository
ConcInit == InitWith({1, 2}, SoundRepositories, MaxConcCalls, ConcTargets)

Next ==
  \E p \in Handlers :
    \/ CallFollowCreate(p)
    \/ CreateIsBlocked(p)
    \/ CreateGetAccount(p)
    \/ CreateIsFollowing(p)
    \/ CreateIsFollowRequested(p)
    \/ CreatePut(p)
    \/ CreateAccept(p)
    \/ CreateEnqueue(p)
    \/ CallFollowRemove(p)
    \/ RemoveIsBlocked(p)
    \/ RemoveGetAccount(p)
    \/ RemoveGetFollowRequest(p)
    \/ RemoveDeleteFollowRequest(p)
    \/ RemoveGetFollow(p)
    \/ RemoveDeleteFollow(p)
    \/ RemoveEnqueueFollowRequest(p)
    \/ RemoveEnqueueFollow(p)
    \/ ReturnRelationship(p)

Spec == Init /\ [][Next]_vars

ConcSpec == ConcInit /\ [][Next]_vars

(***************************************************************************)
(* Properties.                                                             *)
(***************************************************************************)
\* handler p has returned from a call; loc[p] still holds the call
Returned(p) == pc[p] = "idle" /\ loc[p].op # ""

\* no failure was injected into the call: its repository calls and its id
\* generation answered as the rows demand (a Put of a taken key is rejected,
\* an accept without a request finds no entries)
Clean(l) == l.errs \subseteq {"ErrAlreadyExists", "ErrNoEntries"}

\* a block in either direction, read from the rows themselves
BlockBetween(a, b) == <<a, b>> \in blocks \/ <<b, a>> \in blocks

\* the rows of the pair the call is about
Requests(l) == ForPair(followRequests, l.req.ID, l.form.ID)
Follows(l) == ForPair(follows, l.req.ID, l.form.ID)
RequestsBefore(l) == ForPair(l.pre.frs, l.req.ID, l.form.ID)
FollowsBefore(l) == ForPair(l.pre.fs, l.req.ID, l.form.ID)

\* the call left the rows and the queue as it found them
NothingChanged(l) ==
  /\ followRequests = l.pre.frs
  /\ follows = l.pre.fs
  /\ queue = l.pre.queue

\* the row of the account the call names
TargetRows(l) == {r \in accounts : r.ID = l.form.ID}

\* the last call came right after a call of kind op on the same pair
After(l, op) ==
  /\ last.op = op
  /\ last.req = l.req.ID
  /\ last.tgt = l.form.ID

\* C1: with a block in either direction between requester and target,
\* FollowCreate and FollowRemove return NotFound, change no FollowRequest
\* or Follow row and enqueue nothing.
C1_BlockedIsNotFound ==
  \A p \in Handlers :
    (Returned(p) /\ Clean(loc[p]) /\ BlockBetween(loc[p].req.ID, loc[p].form.ID))
      => /\ loc[p].res = Failure("NotFound")
         /\ NothingChanged(loc[p])

\* a blocked FollowRemove has returned right after a blocked FollowCreate,
\* the block being the target's, with rows of the pair stored
C1_Witness ==
  /\ Returned(1) /\ Clean(loc[1])
  /\ loc[1].op = "FollowRemove"
  /\ After(loc[1], "FollowCreate") /\ last.errs = {}
  /\ <<loc[1].form.ID, loc[1].req.ID>> \in blocks
  /\ Follows(loc[1]) # {}
  /\ loc[1].res.code = "NotFound"

\* C2: for every (origin, target) pair there is at most one row among the
\* FollowRequest and Follow rows, in every state of every interleaving.
C2_AtMostOneRecord ==
  \A a, b \in AccountIDs :
    Cardinality(ForPair(followRequests, a, b))
      + Cardinality(ForPair(follows, a, b)) <= 1

\* two FollowCreate calls on one pair are both past the existence checks
\* and the first has stored its request
C2_Witness ==
  /\ pc[1] = "CreatePut" /\ pc[2] = "CreateAccept"
  /\ loc[1].form.ID = loc[2].form.ID
  /\ Requests(loc[1]) # {}

\* C3: FollowCreate(A, A) fails with NotAcceptable whatever rows exist for
\* the pair (A, A).
C3_SelfFollowNotAcceptable ==
  \A p \in Handlers :
    (Returned(p) /\ Clean(loc[p]) /\ loc[p].op = "FollowCreate"
       /\ loc[p].req.ID = loc[p].form.ID)
      => loc[p].res = Failure("NotAcceptable")

\* C4: a FollowCreate right after a FollowCreate of the same pair that
\* returned a snapshot returns that snapshot again, changes no row and
\* enqueues nothing; the pair the first call made a row for has one row and
\* at most one message.
C4_CreateIdempotent ==
  \A p \in Handlers :
    (Returned(p) /\ Clean(loc[p]) /\ loc[p].op = "FollowCreate"
       /\ After(loc[p], "FollowCreate") /\ last.res.code = "OK")
      => /\ loc[p].res = last.res
         /\ NothingChanged(loc[p])
         /\ (ForPair(last.pre.frs, last.req, last.tgt) = {}
               /\ ForPair(last.pre.fs, last.req, last.tgt) = {})
              => /\ Cardinality(Requests(loc[p]) \cup Follows(loc[p])) = 1
                 /\ Len(queue) <= Len(last.pre.queue) + 1

\* the second FollowCreate has returned, the first having made the request
C4_Witness ==
  /\ Returned(1) /\ Clean(loc[1]) /\ loc[1].op = "FollowCreate"
  /\ After(loc[1], "FollowCreate") /\ last.res.code = "OK"
  /\ ForPair(last.pre.frs, last.req, last.tgt) = {}
  /\ ForPair(last.pre.fs, last.req, last.tgt) = {}
  /\ loc[1].res.rel.Requested
  /\ Len(queue) = 1

\* the call is a FollowCreate of another account, with no block and no row
\* of the pair when it began
FreshCreate(l) ==
  /\ l.op = "FollowCreate"
  /\ l.req.ID # l.form.ID
  /\ ~BlockBetween(l.req.ID, l.form.ID)
  /\ RequestsBefore(l) = {} /\ FollowsBefore(l) = {}

\* C5: FollowCreate of a local unlocked account, with no block and no row
\* of the pair before, leaves no FollowRequest and one Follow for the pair,
\* returns following = true and enqueues nothing.
C5_AutoAccept ==
  \A p \in Handlers :
    (Returned(p) /\ Clean(loc[p]) /\ FreshCreate(loc[p])
       /\ \E t \in TargetRows(loc[p]) : t.Domain = "" /\ ~t.Locked)
      => /\ loc[p].res.code = "OK"
         /\ loc[p].res.rel.Following
         /\ Requests(loc[p]) = {}
         /\ Cardinality(Follows(loc[p])) = 1
         /\ queue = loc[p].pre.queue

\* a FollowCreate of the local unlocked account C has been accepted
C5_Witness ==
  /\ Returned(1) /\ Clean(loc[1]) /\ FreshCreate(loc[1])
  /\ loc[1].form.ID = "C"
  /\ loc[1].res.rel.Following
  /\ Follows(loc[1]) # {}

\* C6: FollowCreate of a remote account, or of a local locked one, with no
\* block and no row of the pair before, leaves one FollowRequest and no
\* Follow for the pair, enqueues the one message {Follow, Create} carrying
\* that FollowRequest, and returns requested = true, following = false.
C6_ManualAccept ==
  \A p \in Handlers :
    (Returned(p) /\ Clean(loc[p]) /\ FreshCreate(loc[p])
       /\ \E t \in TargetRows(loc[p]) : t.Domain # "" \/ t.Locked)
      => /\ loc[p].res.code = "OK"
         /\ loc[p].res.rel.Requested /\ ~loc[p].res.rel.Following
         /\ Cardinality(Requests(loc[p])) = 1
         /\ Follows(loc[p]) = {}
         /\ Len(queue) = Len(loc[p].pre.queue) + 1
         /\ SubSeq(queue, 1, Len(loc[p].pre.queue)) = loc[p].pre.queue
         /\ LET m == queue[Len(queue)] IN
              /\ m.APObjectType = "Follow" /\ m.APActivityType = "Create"
              /\ m.GTSModel \in Requests(loc[p])

\* a FollowCreate of the remote unlocked account B has returned, after one
\* of the local locked account D
C6_Witness ==
  /\ Returned(1) /\ Clean(loc[1]) /\ FreshCreate(loc[1])
  /\ loc[1].form.ID = "B"
  /\ loc[1].res.rel.Requested
  /\ last.op = "FollowCreate" /\ last.tgt = "D" /\ last.res.rel.Requested
  /\ Len(queue) = 2

\* C7: a FollowCreate whose Put the repository rejects as a duplicate
\* returns the relationship snapshot, not an Internal error.
C7_DuplicateIsIdempotent ==
  \A p \in Handlers :
    (Returned(p) /\ "ErrAlreadyExists" \in loc[p].errs)
      => loc[p].res.code = "OK"

\* the call is a FollowRemove of an id that has no account row, no block
\* between the two
RemoveOfMissing(l) ==
  /\ l.op = "FollowRemove"
  /\ TargetRows(l) = {}
  /\ ~BlockBetween(l.req.ID, l.form.ID)

\* C8: FollowRemove of an account that has no row any more succeeds: it
\* deletes the rows of the pair and returns a snapshot.
C8_RemoveOfMissingSucceeds ==
  \A p \in Handlers :
    (Returned(p) /\ Clean(loc[p]) /\ RemoveOfMissing(loc[p]))
      => /\ loc[p].res.code = "OK"
         /\ Requests(loc[p]) = {} /\ Follows(loc[p]) = {}

\* C8, amended: FollowRemove of an account that has no row returns
\* NotFound, deletes no row and enqueues nothing.
C8_RemoveOfMissingIsNotFound ==
  \A p \in Handlers :
    (Returned(p) /\ Clean(loc[p]) /\ RemoveOfMissing(loc[p]))
      => /\ loc[p].res = Failure("NotFound")
         /\ NothingChanged(loc[p])

\* a FollowRemove of X has returned and the follow of X is still stored
C8_Witness ==
  /\ Returned(1) /\ Clean(loc[1]) /\ RemoveOfMissing(loc[1])
  /\ loc[1].form.ID = "X"
  /\ Follows(loc[1]) # {}

\* the call is a FollowRemove right after a FollowCreate of the same pair
\* that left a new request pending
RemoveAfterManualCreate(l) ==
  /\ l.op = "FollowRemove"
  /\ After(l, "FollowCreate")
  /\ last.res.code = "OK"
  /\ last.res.rel.Requested /\ ~last.res.rel.Following
  /\ ForPair(last.pre.frs, last.req, last.tgt) = {}
  /\ ForPair(last.pre.fs, last.req, last.tgt) = {}

\* C9: FollowCreate on the manual-accept path and then FollowRemove leave no
\* row of the pair and enqueue two messages in all, a Create and then an
\* Undo with the same URI.
C9_RemoveAfterCreate ==
  \A p \in Handlers :
    (Returned(p) /\ Clean(loc[p]) /\ RemoveAfterManualCreate(loc[p]))
      => /\ loc[p].res.code = "OK"
         /\ Requests(loc[p]) = {} /\ Follows(loc[p]) = {}
         /\ Len(queue) = Len(last.pre.queue) + 2
         /\ SubSeq(queue, 1, Len(last.pre.queue)) = last.pre.queue
         /\ LET c == queue[Len(queue) - 1]
                 u == queue[Len(queue)] IN
              /\ c.APActivityType = "Create" /\ c.APObjectType = "Follow"
              /\ u.APActivityType = "Undo" /\ u.APObjectType = "Follow"
              /\ c.GTSModel.URI # <<>>
              /\ u.GTSModel.URI = c.GTSModel.URI

\* the FollowRemove that follows a FollowCreate of D has returned
C9_Witness ==
  /\ Returned(1) /\ Clean(loc[1]) /\ RemoveAfterManualCreate(loc[1])
  /\ loc[1].form.ID = "D"
  /\ Len(queue) = 2

\* the call is a FollowRemove of an account that has a row, with no block
\* and no row of the pair when it began
RemoveOfNothing(l) ==
  /\ l.op = "FollowRemove"
  /\ TargetRows(l) # {}
  /\ ~BlockBetween(l.req.ID, l.form.ID)
  /\ RequestsBefore(l) = {} /\ FollowsBefore(l) = {}

\* C10: FollowRemove with no row of the pair returns a snapshot with
\* following = false and requested = false, changes no row and enqueues
\* nothing; so does a FollowRemove right after a FollowRemove that
\* returned a snapshot.
C10_RemoveOfNothing ==
  \A p \in Handlers :
    (Returned(p) /\ Clean(loc[p]) /\ loc[p].op = "FollowRemove")
      => /\ RemoveOfNothing(loc[p])
              => /\ loc[p].res.code = "OK"
                 /\ ~loc[p].res.rel.Following /\ ~loc[p].res.rel.Requested
                 /\ NothingChanged(loc[p])
         /\ (After(loc[p], "FollowRemove") /\ last.res.code = "OK"
               /\ last.errs = {})
              => NothingChanged(loc[p])

\* a second FollowRemove has returned after one that deleted a follow
C10_Witness ==
  /\ Returned(1) /\ Clean(loc[1]) /\ RemoveOfNothing(loc[1])
  /\ After(loc[1], "FollowRemove") /\ last.res.code = "OK" /\ last.errs = {}
  /\ ForPair(last.pre.fs, last.req, last.tgt) # {}
  /\ loc[1].res.code = "OK"
\* the rows whose origin is their target
SelfRows == {r \in followRequests \cup follows : r.AccountID = r.TargetAccountID}

\* C11: from a repository without a self-follow row, no step of FollowCreate
\* or FollowRemove makes a FollowRequest or Follow row whose origin is its
\* target.
C11_NoSelfFollowMade == [][SelfRows = {} => SelfRows' = {}]_vars

\* FollowCreate(A, A) has been refused on a repository without such a row
C11_Witness ==
  /\ Returned(1) /\ loc[1].op = "FollowCreate"
  /\ loc[1].req.ID = loc[1].form.ID
  /\ loc[1].res = Failure("NotAcceptable")
  /\ SelfRows = {}
\* C12: a FollowCreate whose Put fails returns Internal; no FollowRequest or
\* Follow row of the pair exists afterwards, nothing is accepted and nothing
\* is enqueued.
C12_PutFailureAborts ==
  \A p \in Handlers :
    (loc[p].op = "FollowCreate" /\ "Put" \in loc[p].errs)
      => /\ Returned(p)
         /\ loc[p].res = Failure("Internal")
         /\ Requests(loc[p]) = {} /\ Follows(loc[p]) = {}
         /\ NothingChanged(loc[p])

\* the Put of a request for the local unlocked account C has failed
C12_Witness ==
  /\ Returned(1) /\ loc[1].op = "FollowCreate" /\ "Put" \in loc[1].errs
  /\ loc[1].form.ID = "C"
  /\ ~BlockBetween(loc[1].req.ID, loc[1].form.ID)
\* C13: a FollowRemove whose delete of the FollowRequest fails returns
\* Internal at once: the Follow of the pair is neither looked up nor
\* deleted, no row changes and nothing is enqueued.
C13_RequestDeleteFailureAborts ==
  \A p \in Handlers :
    (loc[p].op = "FollowRemove" /\ "DeleteFollowRequest" \in loc[p].errs)
      => /\ Returned(p)
         /\ loc[p].res = Failure("Internal")
         /\ loc[p].f = ZeroRecord /\ ~loc[p].fChanged
         /\ NothingChanged(loc[p])

\* the delete of the request has failed while a follow of the pair is stored
C13_Witness ==
  /\ Returned(1) /\ loc[1].op = "FollowRemove"
  /\ "DeleteFollowRequest" \in loc[1].errs
  /\ Requests(loc[1]) # {} /\ Follows(loc[1]) # {}
\* the messages the call has enqueued so far (one request at a time)
Enqueued(l) == SubSeq(queue, Len(l.pre.queue) + 1, Len(queue))

\* the call is a FollowRemove that found a FollowRequest and a Follow of
\* the pair
RemoveOfBoth(l) ==
  /\ l.op = "FollowRemove"
  /\ RequestsBefore(l) # {} /\ FollowsBefore(l) # {}

\* C14: with a FollowRequest and a Follow of the pair stored, a FollowRemove
\* that succeeds deletes both and enqueues two Undo messages, the first
\* with the URI of the request and the second with that of the follow, and
\* nothing is enqueued before both rows are deleted.
C14_RemoveOfBoth ==
  \A p \in Handlers :
    (Clean(loc[p]) /\ RemoveOfBoth(loc[p]))
      => /\ queue # loc[p].pre.queue
              => Requests(loc[p]) = {} /\ Follows(loc[p]) = {}
         /\ (Returned(p) /\ loc[p].res.code = "OK")
              => /\ Requests(loc[p]) = {} /\ Follows(loc[p]) = {}
                 /\ SubSeq(queue, 1, Len(loc[p].pre.queue)) = loc[p].pre.queue
                 /\ Len(Enqueued(loc[p])) = 2
                 /\ \A i \in {1, 2} :
                      /\ Enqueued(loc[p])[i].APObjectType = "Follow"
                      /\ Enqueued(loc[p])[i].APActivityType = "Undo"
                 /\ \E r \in RequestsBefore(loc[p]) :
                      Enqueued(loc[p])[1].GTSModel.URI = r.URI
                 /\ \E r \in FollowsBefore(loc[p]) :
                      Enqueued(loc[p])[2].GTSModel.URI = r.URI

\* such a FollowRemove has returned its snapshot
C14_Witness ==
  /\ Returned(1) /\ Clean(loc[1]) /\ RemoveOfBoth(loc[1])
  /\ loc[1].res.code = "OK"
  /\ Len(queue) = 2
\* the call is a FollowRemove in which the lookup of the target account, and
\* nothing else, failed with an error other than db.ErrNoEntries
RemoveWithLookupError(l) ==
  /\ l.op = "FollowRemove"
  /\ l.errs = {"GetAccountByID"}

\* C15: a FollowRemove whose target lookup fails with an error other than
\* "no such account" goes on: it deletes the rows of the pair, enqueues an
\* Undo with a nil target account for each and returns the snapshot.
C15_LookupErrorGoesOn ==
  \A p \in Handlers :
    (Returned(p) /\ RemoveWithLookupError(loc[p]))
      => /\ loc[p].res.code = "OK"
         /\ ~loc[p].res.rel.Following /\ ~loc[p].res.rel.Requested
         /\ Requests(loc[p]) = {} /\ Follows(loc[p]) = {}
         /\ SubSeq(queue, 1, Len(loc[p].pre.queue)) = loc[p].pre.queue
         /\ Len(Enqueued(loc[p])) =
              Cardinality(RequestsBefore(loc[p])) + Cardinality(FollowsBefore(loc[p]))
         /\ \A i \in 1..Len(Enqueued(loc[p])) :
              /\ Enqueued(loc[p])[i].APActivityType = "Undo"
              /\ Enqueued(loc[p])[i].TargetAccount = NilAccount
              /\ \E r \in RequestsBefore(loc[p]) \cup FollowsBefore(loc[p]) :
                   Enqueued(loc[p])[i].GTSModel.URI = r.URI

\* such a FollowRemove has deleted a row of an account that has a row and
\* sent its Undo without a target
C15_Witness ==
  /\ Returned(1) /\ RemoveWithLookupError(loc[1])
  /\ TargetRows(loc[1]) # {}
  /\ FollowsBefore(loc[1]) # {}
  /\ Len(Enqueued(loc[1])) = 1
  /\ Enqueued(loc[1])[1].TargetAccount = NilAccount
\* the state of the pair (a, b) in the rows frs, fs; a pair with a request
\* and a follow is in none of the three states
PairState(frs, fs, a, b) ==
  IF ForPair(frs, a, b) # {} /\ ForPair(fs, a, b) # {} THEN "Both"
  ELSE IF ForPair(fs, a, b) # {} THEN "Following"
  ELSE IF ForPair(frs, a, b) # {} THEN "Requested"
  ELSE "None"

StateBefore(l) == PairState(l.pre.frs, l.pre.fs, l.req.ID, l.form.ID)
StateAfter(l) == PairState(followRequests, follows, l.req.ID, l.form.ID)

\* C16: a pair in None, Requested or Following is moved by a successful
\* FollowCreate from None to Requested (remote or locked target) or to
\* Following (local unlocked target) and left alone otherwise; by a
\* successful FollowRemove from Requested or Following to None, and left
\* in None; a blocked pair is never moved.
C16_Transitions ==
  \A p \in Handlers :
    (Returned(p) /\ Clean(loc[p]) /\ StateBefore(loc[p]) # "Both")
      => /\ (loc[p].res.code = "OK" /\ loc[p].op = "FollowCreate")
              => \/ /\ StateBefore(loc[p]) = "None"
                     /\ StateAfter(loc[p]) = "Requested"
                     /\ \E t \in TargetRows(loc[p]) : t.Domain # "" \/ t.Locked
                  \/ /\ StateBefore(loc[p]) = "None"
                     /\ StateAfter(loc[p]) = "Following"
                     /\ \E t \in TargetRows(loc[p]) : t.Domain = "" /\ ~t.Locked
                  \/ /\ StateBefore(loc[p]) \in {"Requested", "Following"}
                     /\ StateAfter(loc[p]) = StateBefore(loc[p])
         /\ (loc[p].res.code = "OK" /\ loc[p].op = "FollowRemove")
              => StateAfter(loc[p]) = "None"
         /\ BlockBetween(loc[p].req.ID, loc[p].form.ID)
              => StateAfter(loc[p]) = StateBefore(loc[p])

\* a FollowRemove has moved to None the pair that the FollowCreate before it
\* moved from None to Following
C16_Witness ==
  /\ Returned(1) /\ Clean(loc[1]) /\ loc[1].op = "FollowRemove"
  /\ loc[1].res.code = "OK"
  /\ StateBefore(loc[1]) = "Following" /\ StateAfter(loc[1]) = "None"
  /\ After(loc[1], "FollowCreate") /\ last.res.code = "OK"
  /\ PairState(last.pre.frs, last.pre.fs, last.req, last.tgt) = "None"
\* the rows of the pair that the call has deleted
Deleted(l) ==
  (RequestsBefore(l) \ followRequests) \cup (FollowsBefore(l) \ follows)

\* the Undo messages of the call that carry the URI uri
UndosOf(l, uri) ==
  {i \in 1..Len(Enqueued(l)) :
     /\ Enqueued(l)[i].APActivityType = "Undo"
     /\ Enqueued(l)[i].GTSModel.URI = uri}

\* C17: every row a FollowRemove has deleted is matched by exactly one Undo
\* message of the same call that carries the row's URI, also when a later
\* repository call of the FollowRemove fails.
C17_EveryDeleteIsUndone ==
  \A p \in Handlers :
    (Returned(p) /\ loc[p].op = "FollowRemove")
      => \A r \in Deleted(loc[p]) : Cardinality(UndosOf(loc[p], r.URI)) = 1
\* C18: when a FollowCreate returns an error, the repository holds no
\* FollowRequest and no Follow of the pair that it did not hold before the
\* call.
C18_FailedCreateLeavesNoRecord ==
  \A p \in Handlers :
    (Returned(p) /\ loc[p].op = "FollowCreate" /\ loc[p].res.code # "OK")
      => /\ Requests(loc[p]) \subseteq RequestsBefore(loc[p])
         /\ Follows(loc[p]) \subseteq FollowsBefore(loc[p])
\* the call is a FollowRemove in which a lookup of the request or of the
\* follow failed, and no other repository call did
RemoveWithFailedLookup(l) ==
  /\ l.op = "FollowRemove"
  /\ l.errs # {}
  /\ l.errs \subseteq {"GetWhereFollowRequest", "GetWhereFollow"}

\* C19: a FollowRemove whose lookup of the FollowRequest (of the Follow)
\* fails goes on as if there were no such row: the rows of that table are
\* left alone, no Undo message carries the URI of one of them, and the call
\* returns the relationship snapshot of the rows as they are now.
C19_FailedLookupIsNoRecord ==
  \A p \in Handlers :
    (Returned(p) /\ RemoveWithFailedLookup(loc[p]))
      => /\ loc[p].res =
              Result("OK", RelationshipGet(blocks, followRequests, follows,
                                           loc[p].req.ID, loc[p].form.ID))
         /\ "GetWhereFollowRequest" \in loc[p].errs
              => /\ followRequests = loc[p].pre.frs
                 /\ ~loc[p].frChanged
                 /\ \A r \in RequestsBefore(loc[p]) : UndosOf(loc[p], r.URI) = {}
         /\ "GetWhereFollow" \in loc[p].errs
              => /\ follows = loc[p].pre.fs
                 /\ ~loc[p].fChanged
                 /\ \A r \in FollowsBefore(loc[p]) : UndosOf(loc[p], r.URI) = {}
         /\ Len(Enqueued(loc[p])) = Cardinality(Deleted(loc[p]))

\* the lookup of a stored FollowRequest has failed, and the call has
\* returned a snapshot that still reports the request
C19_Witness ==
  /\ Returned(1) /\ RemoveWithFailedLookup(loc[1])
  /\ "GetWhereFollowRequest" \in loc[1].errs
  /\ RequestsBefore(loc[1]) # {}
  /\ loc[1].res.code = "OK" /\ loc[1].res.rel.Requested
\* the rows that a step adds to or takes from the two tables
RowsChanged ==
  (followRequests' \ followRequests) \cup (followRequests \ followRequests')
    \cup (follows' \ follows) \cup (follows \ follows')

\* C20: a step of FollowCreate(A,B) or FollowRemove(A,B) adds, promotes or
\* deletes only rows with origin A and target B; the rows of every other
\* pair, the reverse pair (B,A) included, and all Block and Account rows
\* stay as they are.
C20_OnlyThePair ==
  [][/\ accounts' = accounts
     /\ blocks' = blocks
     /\ RowsChanged # {}
          => \E p \in Handlers :
               /\ pc'[p] # pc[p]
               /\ \A r \in RowsChanged :
                    /\ r.AccountID = loc[p].req.ID
                    /\ r.TargetAccountID = loc[p].form.ID]_vars

\* a FollowRemove(A,B) has deleted the request of (A,B) and the follow of
\* the reverse pair (B,A) is still stored
C20_Witness ==
  /\ Returned(1) /\ loc[1].op = "FollowRemove"
  /\ loc[1].req.ID = "A" /\ loc[1].form.ID = "B"
  /\ Deleted(loc[1]) # {}
  /\ ForPair(follows, "B", "A") # {}
  /\ ForPair(follows, "B", "A") = ForPair(loc[1].pre.fs, "B", "A")
====
